---- MODULE Spec2Model ----
(***************************************************************************)
(* Navigation controller of the single-page CV (class CVApp and the        *)
(* DOMContentLoaded bootstrap in assets/js/config.js) and its animation    *)
(* engine (class CVAnimations, its bootstrap and its unload listener).     *)
(*                                                                         *)
(* The DOM is modelled by the class lists and attributes the handlers      *)
(* read and write: which elements carry the class "active", which nav      *)
(* links carry it, the nav menu's class, the body's overflow style, the    *)
(* URL fragment.  Every browser event is one action that runs all the      *)
(* listeners the code registers for it, in dispatch order.                 *)
(***************************************************************************)
EXTENDS Integers, Sequences, FiniteSets, TLC

\* ---------------------------------------------------------------- bounds
\* number of the configured sections present in the modelled page
NSections == 3
\* number of animatable elements (.timeline-item, .stat-item, ...)
NElems == 1
\* most animateSection timers pending for one element at a time
MaxPending == 2
\* number of particles of the modelled particle system
NParticles == 2
\* number of ticks of the particle system that are followed
MaxTicks == 2
\* the invocation counter of animateElement saturates here
MaxAnimCount == 2
\* the clock of the throttle and debounce timers stops here
MaxTime == 4
\* most timers of one debounced function pending at a time
MaxTimers == 2
\* the limit of the modelled throttled function, in clock steps
Limit == 2
\* the wait of the modelled debounced function, in clock steps
Wait == 2

\* ------------------------------------------------------- page and config
\* CVConfig.sections, in configured order
SectionIds ==
  <<"perfil", "experiencia", "educacion", "habilidades", "certificaciones", "adicional">>

\* document.querySelectorAll('.section'), in document order
Sections == SubSeq(SectionIds, 1, NSections)

SectionSet == {Sections[i] : i \in 1..Len(Sections)}

\* ids of elements that are not sections (document.getElementById('navigation'))
OtherIds == {"navigation"}

\* every id document.getElementById can find
ElementIds == SectionSet \cup OtherIds

\* an identifier no element of the page has
NoSuchId == "contacto"

\* the fragments a URL of the page can carry ("" is no fragment)
Hashes == {""} \cup ElementIds \cup {NoSuchId}

\* document.querySelectorAll('.nav-link'): link i is <a href="#Sections[i]">
NavLinks == 1..Len(Sections)

Href(i) == Sections[i]

\* the animatable elements and the section each one lies in
Elems == 1..NElems

ElemSection(e) == Sections[((e - 1) % Len(Sections)) + 1]

\* window.innerWidth
Widths == {600, 1200}

\* the breakpoint of handleResize
Breakpoint == 768

Keys == {"Escape", "ArrowRight", "ArrowLeft"}

Min(a, b) == IF a < b THEN a ELSE b

VARIABLES
  pc,             \* "loading" before DOMContentLoaded, "ready" after
  hash,           \* window.location.hash without the '#'
  active,         \* ids of the elements whose classList has "active"
  navActive,      \* nav links whose classList has "active"
  currentSection, \* state.currentSection
  isMenuOpen,     \* state.isMenuOpen
  menuActive,     \* navMenu.classList has "active"
  bodyOverflow,   \* document.body.style.overflow
  innerWidth,     \* window.innerWidth
  resizeTimeout,  \* the debounce timer of the resize listener is pending
  isScrolling,    \* state.isScrolling
  rafPending,     \* the requestAnimationFrame callback of handleScroll is pending
  hasAnimated,    \* state.hasAnimated
  animCount,      \* number of animateElement invocations per element (saturating)
  pendingAnim,    \* pending animateSection timers per element
  shown,          \* log: the id showSection activated last in the event handled last
  lastEv,         \* log: the event handled last, the URL fragment it found (load)
                  \* and whether it found the menu open
  threw,          \* log: a listener of the event handled last raised an error
  absent,         \* the named element the page lacks, "none" when it has them all
  reducedMotion,  \* matchMedia('(prefers-reduced-motion: reduce)').matches
  eng,            \* window.CVAnimations: "none" before the engine's start-up timer,
                  \* "installed" once assigned, "failed" when the constructor threw
  canvasAttached, \* the particle canvas is a child of the body
  cursorOverlay,  \* the .custom-cursor element is a child of the body
  bodyCursor,     \* document.body.style.cursor
  listening,      \* the mousemove and resize listeners of the particle system exist
  tickPending,    \* number of pending requestAnimationFrame callbacks of animateParticles
  decoPending,    \* one-shot timers of the engine's text animations are pending
  destroyed,      \* destroy() has been called
  destroyThrew,   \* log: the last call of destroy() raised an error
  particles,      \* this.particles: x, y, vx, vy in 1/1000 px
  mouse,          \* this.mouse, in 1/1000 px
  evals,          \* log: the pair evaluations of the last tick, in order
  tickNo,         \* number of ticks run (saturating)
  now,            \* the clock the timers of throttle and debounce run on
  thr,            \* a throttled function: its closure variable inThrottle, its
                  \* pending timers (due times) and, as log, the time func ran
                  \* last and whether the last call ran it
  deb             \* a debounced function: its closure variable timeout, its
                  \* pending timers and, as log, the last call, the runs of
                  \* func since then, the last run and the calls it answered

\* the state of the navigation controller
navVars == <<pc, hash, active, navActive, currentSection, isMenuOpen, menuActive,
             bodyOverflow, innerWidth, resizeTimeout, isScrolling, rafPending,
             hasAnimated, animCount, pendingAnim, shown, lastEv, threw>>

\* the page and the user's preference
envVars == <<absent, reducedMotion>>

\* the state of the animation engine
engVars == <<eng, canvasAttached, cursorOverlay, bodyCursor, listening, tickPending,
             decoPending, destroyed, destroyThrew, particles, mouse, evals, tickNo>>

\* a throttled and a debounced function and their clock
utilVars == <<now, thr, deb>>

vars == <<navVars, envVars, engVars, utilVars>>

\* the part of the state the composed handlers work on
Cur ==
  [hash |-> hash, active |-> active, navActive |-> navActive,
   currentSection |-> currentSection, isMenuOpen |-> isMenuOpen,
   menuActive |-> menuActive, bodyOverflow |-> bodyOverflow,
   hasAnimated |-> hasAnimated, animCount |-> animCount,
   pendingAnim |-> pendingAnim, shown |-> "", threw |-> FALSE]

Commit(r) ==
  /\ hash' = r.hash
  /\ active' = r.active
  /\ navActive' = r.navActive
  /\ currentSection' = r.currentSection
  /\ isMenuOpen' = r.isMenuOpen
  /\ menuActive' = r.menuActive
  /\ bodyOverflow' = r.bodyOverflow
  /\ hasAnimated' = r.hasAnimated
  /\ animCount' = r.animCount
  /\ pendingAnim' = r.pendingAnim
  /\ shown' = r.shown
  /\ threw' = r.threw

\* the environment leaves at most MaxPending timers pending per element
Bounded(r) == \A e \in Elems : r.pendingAnim[e] <= MaxPending

\* ------------------------------------------------------------ DOM lookups
\* the named elements the constructor looks up and caches
NamedElements ==
  {"navigation", "navMenu", "menuToggle", "scrollToTop", "downloadCV",
   "profileImage", "loadingSpinner"}

\* the ids document.getElementById finds in this page
PresentIds == ElementIds \ {absent}

\* a TypeError (property access on null) ends the running listener
Throw(s) == [s EXCEPT !.threw = TRUE]

\* index of the section with this id, 0 when there is none (findIndex + 1)
IndexOf(id) ==
  IF \E i \in 1..Len(Sections) : Sections[i] = id
    THEN CHOOSE i \in 1..Len(Sections) : Sections[i] = id
    ELSE 0

\* document.querySelector('.section.active'): first active section, 0 if none
FirstActiveSection(s) ==
  IF \E i \in 1..Len(Sections) : Sections[i] \in s.active
    THEN CHOOSE i \in 1..Len(Sections) :
           /\ Sections[i] \in s.active
           /\ \A j \in 1..(i - 1) : Sections[j] \notin s.active
    ELSE 0

\* document.querySelector(`a[href="#h"]`): the nav link with that href, 0 if none
LinkOf(h) ==
  IF \E i \in NavLinks : Href(i) = h
    THEN CHOOSE i \in NavLinks : Href(i) = h
    ELSE 0

\* the sections that carry the active marker
ActiveSections == active \cap SectionSet

\* ------------------------------------------------------------- CVApp code
\* animateElement: one more reveal animation applied to e
AnimateElement(s, e) ==
  [s EXCEPT !.animCount[e] = Min(@ + 1, MaxAnimCount)]

\* animateSection: one timer per animatable element of the section
AnimateSection(s, id) ==
  [s EXCEPT !.pendingAnim =
     [e \in Elems |-> IF ElemSection(e) = id THEN @[e] + 1 ELSE @[e]]]

\* updateURL without the pushState
UpdateURLNoPush(s, id) == s

\* updateURL: history.pushState(..., '#' + sectionId)
UpdateURL(s, id) == [s EXCEPT !.hash = id]

\* showSection that does not deactivate the current section
ShowSectionKeepsCurrent(s, id) ==
  IF id \in PresentIds
    THEN UpdateURL(
           AnimateSection(
             [s EXCEPT !.active = @ \cup {id}, !.currentSection = id,
                       !.shown = id], id),
           id)
    ELSE s

\* showSection
ShowSection(s, id) ==
  LET cur == FirstActiveSection(s)
      s1 == IF cur # 0 THEN [s EXCEPT !.active = @ \ {Sections[cur]}] ELSE s
  IN  IF id \in PresentIds
        THEN UpdateURL(
               AnimateSection(
                 [s1 EXCEPT !.active = @ \cup {id}, !.currentSection = id,
                            !.shown = id], id),
               id)
        ELSE s1

\* updateActiveNavLink
UpdateActiveNavLink(s, link) == [s EXCEPT !.navActive = {link}]

\* openMobileMenu that does not lock the body's scrolling
OpenMobileMenuNoLock(s) == [s EXCEPT !.menuActive = TRUE]

\* openMobileMenu; navMenu and menuToggle are dereferenced unchecked
OpenMobileMenu(s) ==
  IF absent = "navMenu" THEN Throw(s)
  ELSE IF absent = "menuToggle" THEN Throw([s EXCEPT !.menuActive = TRUE])
  ELSE [s EXCEPT !.menuActive = TRUE, !.bodyOverflow = "hidden"]

\* closeMobileMenu that leaves the flag set
CloseMobileMenuKeepsFlag(s) ==
  [s EXCEPT !.menuActive = FALSE, !.bodyOverflow = ""]

\* closeMobileMenu; navMenu and menuToggle are dereferenced unchecked
CloseMobileMenu(s) ==
  IF absent = "navMenu" THEN Throw(s)
  ELSE IF absent = "menuToggle" THEN Throw([s EXCEPT !.menuActive = FALSE])
  ELSE [s EXCEPT !.menuActive = FALSE, !.bodyOverflow = "", !.isMenuOpen = FALSE]

\* toggleMobileMenu
ToggleMobileMenu(s) ==
  LET s1 == [s EXCEPT !.isMenuOpen = ~@]
  IN  IF s1.isMenuOpen THEN OpenMobileMenu(s1) ELSE CloseMobileMenu(s1)

\* handleNavigation without the closeMobileMenu call
HandleNavigationNoClose(s, i) ==
  LET targetId == Href(i)
  IN  IF targetId # "" /\ Len(Sections) > 0
        THEN UpdateActiveNavLink(ShowSection(s, targetId), i)
        ELSE s

\* handleNavigation, for a click on nav link i
HandleNavigation(s, i) ==
  LET targetId == Href(i)
  IN  IF targetId # "" /\ Len(Sections) > 0
        THEN CloseMobileMenu(UpdateActiveNavLink(ShowSection(s, targetId), i))
        ELSE s

\* handleOutsideClick; inMenu = navMenu.contains(e.target),
\* inToggle = menuToggle.contains(e.target)
HandleOutsideClick(s, inMenu, inToggle) ==
  IF ~s.isMenuOpen THEN s
  ELSE IF absent = "navMenu" THEN Throw(s)
  ELSE IF inMenu THEN s
  ELSE IF absent = "menuToggle" THEN Throw(s)
  ELSE IF inToggle THEN s
  ELSE CloseMobileMenu(s)

\* handleKeyNavigation
HandleKeyNavigation(s, key, altKey) ==
  LET s1 == IF key = "Escape" /\ s.isMenuOpen THEN CloseMobileMenu(s) ELSE s
      currentIndex == IndexOf(s1.currentSection)
  IN  IF s1.threw THEN s1
      ELSE IF altKey
        THEN IF key = "ArrowRight" /\ currentIndex < Len(Sections)
               THEN UpdateActiveNavLink(
                      ShowSection(s1, Sections[currentIndex + 1]), currentIndex + 1)
             ELSE IF key = "ArrowLeft" /\ currentIndex > 1
               THEN UpdateActiveNavLink(
                      ShowSection(s1, Sections[currentIndex - 1]), currentIndex - 1)
             ELSE s1
        ELSE s1

\* toggleScrollToTopButton; scrollToTop is dereferenced unchecked
ToggleScrollToTopButton(s) ==
  IF absent = "scrollToTop" THEN Throw(s) ELSE s

\* updateNavigationOnScroll; hit = index of the section whose box contains
\* scrollY + 100, 0 when no section does
UpdateNavigationOnScroll(s, hit) ==
  IF hit # 0 /\ hit \in NavLinks /\ hit \notin s.navActive
    THEN [UpdateActiveNavLink(s, hit) EXCEPT !.currentSection = Sections[hit]]
    ELSE s

\* recalculateAnimations
RecalculateAnimations(s) == [s EXCEPT !.hasAnimated = {}]

\* handleResize that closes the menu whatever the new width is
HandleResizeAnyWidth(s, width) ==
  RecalculateAnimations(IF s.isMenuOpen THEN CloseMobileMenu(s) ELSE s)

\* handleResize
HandleResize(s, width) ==
  LET s1 == IF width > Breakpoint /\ s.isMenuOpen THEN CloseMobileMenu(s) ELSE s
  IN  IF s1.threw THEN s1 ELSE RecalculateAnimations(s1)

\* the IntersectionObserver callback, for one intersecting entry
ObserverCallback(s, e) ==
  IF e \notin s.hasAnimated
    THEN [AnimateElement(s, e) EXCEPT !.hasAnimated = @ \cup {e}]
    ELSE s

\* the hashchange listener, and the initial hash handling after construction
OnHash(s, h) ==
  IF h # "" /\ h \in PresentIds
    THEN LET s1 == ShowSection(s, h)
         IN  IF LinkOf(h) # 0 THEN UpdateActiveNavLink(s1, LinkOf(h)) ELSE s1
    ELSE s

\* initializeComponents
InitializeComponents(s) == ShowSection(s, s.currentSection)

\* ------------------------------------------------------ CVAnimations code
\* lengths and velocities are fixed-point numbers, Scale units to the pixel;
\* every arithmetic result is rounded to the nearest unit
Scale == 1000

\* window.innerHeight, in px
InnerHeight == 400

\* canvas.width and canvas.height as resizeCanvas sets them; the resize
\* listener keeps them equal to the window's size
CanvasWidth == innerWidth * Scale

CanvasHeight == InnerHeight * Scale

Abs(a) == IF a < 0 THEN -a ELSE a

Max(a, b) == IF a > b THEN a ELSE b

\* a / b rounded to the nearest integer, for b > 0
RDiv(a, b) ==
  IF a >= 0 THEN (2 * a + b) \div (2 * b) ELSE -((2 * (-a) + b) \div (2 * b))

\* the largest r in lo..hi with r * r <= n, by bisection at mid
RECURSIVE SqrtFloor(_, _, _)
SqrtFloor(n, lo, hi) ==
  IF lo >= hi
    THEN lo
    ELSE CHOOSE r \in {IF mid * mid <= n
                         THEN SqrtFloor(n, mid, hi)
                         ELSE SqrtFloor(n, lo, mid - 1) :
                       mid \in {(lo + hi + 1) \div 2}} : TRUE

\* Math.sqrt, rounded to the nearest integer
RSqrt(n) ==
  CHOOSE s \in {IF n - r * r > r THEN r + 1 ELSE r :
                  r \in {SqrtFloor(n, 0, 46340)}} : TRUE

\* beyond this many 1/100 px a distance is only compared with the thresholds
FarCs == 20000

\* Math.sqrt(dx * dx + dy * dy) in 1/100 px, for dx and dy in 1/1000 px; a
\* distance of FarCs or more is reported by its larger component, which is
\* at least FarCs
Hypot(dx, dy) ==
  LET cx == Abs(RDiv(dx, 10))
      cy == Abs(RDiv(dy, 10))
  IN  IF cx >= FarCs \/ cy >= FarCs THEN Max(cx, cy) ELSE RSqrt(cx * cx + cy * cy)

\* the pointer attracts particles closer than 100 px (in 1/100 px)
AttractRadius == 10000

\* particles closer than 80 px are connected (in 1/100 px)
ConnectRadius == 8000

\* maxSpeed = 2 px per tick
MaxSpeed == 2 * Scale

\* the position update that adds the velocity twice
MoveTwice(p) == [p EXCEPT !.x = @ + 2 * p.vx, !.y = @ + 2 * p.vy]

\* particle.x += particle.vx; particle.y += particle.vy
Move(p) == [p EXCEPT !.x = @ + p.vx, !.y = @ + p.vy]

\* the velocity component is reversed when the new position is off the canvas
Bounce(p) ==
  [p EXCEPT !.vx = IF p.x < 0 \/ p.x > CanvasWidth THEN -@ ELSE @,
            !.vy = IF p.y < 0 \/ p.y > CanvasHeight THEN -@ ELSE @]

\* attraction towards the pointer: force = (100 - distance) / 100,
\* v += d * force * 0.0001
Attract(p, m) ==
  LET dx == m.x - p.x
      dy == m.y - p.y
      distance == Hypot(dx, dy)
  IN  IF distance < AttractRadius
        THEN [p EXCEPT !.vx = @ + RDiv(dx * (AttractRadius - distance), 100000000),
                       !.vy = @ + RDiv(dy * (AttractRadius - distance), 100000000)]
        ELSE p

\* the speed limit left out
LimitSpeedOff(p) == p

\* the speed limit: v = (v / speed) * maxSpeed when speed > maxSpeed
LimitSpeed(p) ==
  LET speed == RSqrt(p.vx * p.vx + p.vy * p.vy)
  IN  IF speed > MaxSpeed
        THEN [p EXCEPT !.vx = RDiv(@ * Scale, speed) * (MaxSpeed \div Scale),
                       !.vy = RDiv(@ * Scale, speed) * (MaxSpeed \div Scale)]
        ELSE p

\* the body of the forEach callback up to the drawing of the particle: each
\* step works on the particle the step before it left
UpdateParticle(p, m) ==
  CHOOSE r \in {LimitSpeed(attracted) :
                  attracted \in {Attract(bounced, m) :
                    bounced \in {Bounce(moved) : moved \in {Move(p)}}}} : TRUE

\* the opacity of a connecting line without the factor 0.2
OpacityUnscaled(d) == RDiv((ConnectRadius - d) * 10000, ConnectRadius)

\* (80 - distance) / 80 * 0.2, in 1/10000
Opacity(d) == RDiv((ConnectRadius - d) * 2000, ConnectRadius)

\* the inner loop of particle index: one evaluation for every later particle,
\* with the positions the array holds at that moment
Connect(ps, index) ==
  [k \in 1..(Len(ps) - index) |->
     LET other == ps[index + k]
         distance == Hypot(ps[index].x - other.x, ps[index].y - other.y)
     IN  [i |-> index, j |-> index + k, d |-> distance,
          line |-> distance < ConnectRadius,
          opacity |-> IF distance < ConnectRadius THEN Opacity(distance) ELSE 0]]

\* this.particles.forEach from particle index on: ps1 is the array once
\* particle index is updated, ev1 the evaluations made up to then
RECURSIVE ForEach(_, _, _, _)
ForEach(ps, index, m, ev) ==
  IF index > Len(ps)
    THEN [particles |-> ps, evals |-> ev]
    ELSE CHOOSE r \in UNION {{ForEach(ps1, index + 1, m, ev1) :
                                  ev1 \in {ev \o Connect(ps1, index)}} :
                               ps1 \in {[ps EXCEPT ![index] = UpdateParticle(@, m)]}} : TRUE

\* one run of animateParticles on the particles ps with the pointer at m
AnimateParticles(ps, m) == ForEach(ps, 1, m, <<>>)

\* createParticles: Math.min(50, Math.floor(window.innerWidth / 20)) particles,
\* of which the first NParticles are modelled
ParticleCount == Min(NParticles, Min(50, innerWidth \div 20))

\* what createParticles can draw for one particle: a position on the canvas
\* and velocity components in [-0.25, 0.25) px per tick
NewParticles ==
  {[x |-> 10000, y |-> 10000, vx |-> 0, vy |-> 0],
   [x |-> 50000, y |-> 10000, vx |-> 250, vy |-> -250]}

\* positions of the pointer (e.clientX, e.clientY), in 1/1000 px
MousePoints == {[x |-> 0, y |-> 0], [x |-> 350000, y |-> 200000]}

\* animateParticles that requests two frames
RequestFrameTwice(n) == n + 2

\* requestAnimationFrame(() => this.animateParticles()): one more callback
RequestFrame(n) == n + 1

\* the part of the engine destroy() works on
CurEngine ==
  [canvasAttached |-> canvasAttached, cursorOverlay |-> cursorOverlay,
   bodyCursor |-> bodyCursor, destroyed |-> destroyed, threw |-> FALSE]

\* destroy() that leaves the body's cursor style as it is
DestroyKeepsCursor(e) ==
  IF e.canvasAttached
    THEN [e EXCEPT !.canvasAttached = FALSE, !.cursorOverlay = FALSE,
                   !.destroyed = TRUE]
    ELSE [e EXCEPT !.destroyed = TRUE, !.threw = TRUE]

\* destroy(): this.canvas is never cleared, so once the canvas is detached
\* removeChild raises NotFoundError and the call ends there
Destroy(e) ==
  IF e.canvasAttached
    THEN [e EXCEPT !.canvasAttached = FALSE, !.cursorOverlay = FALSE,
                   !.bodyCursor = IF e.cursorOverlay THEN "" ELSE @,
                   !.destroyed = TRUE]
    ELSE [e EXCEPT !.destroyed = TRUE, !.threw = TRUE]

CommitEngine(e) ==
  /\ canvasAttached' = e.canvasAttached
  /\ cursorOverlay' = e.cursorOverlay
  /\ bodyCursor' = e.bodyCursor
  /\ destroyed' = e.destroyed
  /\ destroyThrew' = e.threw

\* ------------------------------------------------------------------ Init
\* the page as parsed, before DOMContentLoaded: the markup marks the first
\* section and its link active, or nothing; the URL carries any fragment;
\* the application state is the one the constructor sets
NavInit ==
  /\ pc = "loading"
  /\ hash \in Hashes
  /\ active \in {{}, {Sections[1]}}
  /\ navActive \in {{}, {1}}
  /\ currentSection = "perfil"
  /\ isMenuOpen = FALSE
  /\ menuActive = FALSE
  /\ bodyOverflow = ""
  /\ innerWidth \in Widths
  /\ resizeTimeout = FALSE
  /\ isScrolling = FALSE
  /\ rafPending = FALSE
  /\ hasAnimated = {}
  /\ animCount = [e \in Elems |-> 0]
  /\ pendingAnim = [e \in Elems |-> 0]
  /\ shown = ""
  /\ lastEv = [ev |-> "none", fragment |-> "", menuWasOpen |-> FALSE]
  /\ threw = FALSE

\* the animation engine before its start-up timer: nothing exists
EngInit ==
  /\ eng = "none"
  /\ canvasAttached = FALSE
  /\ cursorOverlay = FALSE
  /\ bodyCursor = ""
  /\ listening = FALSE
  /\ tickPending = 0
  /\ decoPending = FALSE
  /\ destroyed = FALSE
  /\ destroyThrew = FALSE
  /\ particles = <<>>
  /\ mouse = [x |-> 0, y |-> 0]
  /\ evals = <<>>
  /\ tickNo = 0

\* no throttled or debounced function has been called
UtilInit ==
  /\ now = 0
  /\ thr = [inThrottle |-> FALSE, timers |-> {}, lastExec |-> -1, ran |-> FALSE]
  /\ deb = [timeout |-> 0, timers |-> {}, lastCall |-> [at |-> -1, args |-> 0],
            runs |-> 0, ranAt |-> -1, ranArgs |-> 0, calls |-> 0, missed |-> FALSE]

\* the complete page, motion not reduced
Init ==
  /\ NavInit
  /\ EngInit
  /\ UtilInit
  /\ absent = "none"
  /\ reducedMotion = FALSE

\* --------------------------------------------------------------- actions
\* DOMContentLoaded that reads the initial hash before constructing the app
DOMContentLoadedHashFirst ==
  /\ pc = "loading"
  /\ pc' = "ready"
  /\ LET initialHash == hash
     IN  Commit(OnHash(InitializeComponents(Cur), initialHash))
  /\ UNCHANGED <<innerWidth, resizeTimeout, isScrolling, rafPending>>

\* the DOMContentLoaded listener: new CVApp() (init runs at once, the document
\* is no longer loading), then the initial hash, read after the constructor
DOMContentLoaded ==
  /\ pc = "loading"
  /\ pc' = "ready"
  /\ LET app == InitializeComponents(Cur)
         initialHash == app.hash
     IN  Commit(OnHash(app, initialHash))
  /\ UNCHANGED <<innerWidth, resizeTimeout, isScrolling, rafPending>>

\* a click on nav link i: handleNavigation, then the document's click listener
\* (the nav links lie inside the nav menu)
NavClick(i) ==
  /\ pc = "ready"
  /\ LET r == HandleOutsideClick(HandleNavigation(Cur, i), TRUE, FALSE)
     IN  /\ Bounded(r)
         /\ Commit(r)
  /\ UNCHANGED <<pc, innerWidth, resizeTimeout, isScrolling, rafPending>>

\* a click on the menu toggle: toggleMobileMenu, then the document's click
\* listener.  onIcon: the click hit the icon inside the button; openMobileMenu
\* and closeMobileMenu replace that icon (innerHTML), so the clicked node is
\* no longer inside the toggle when the document's listener runs
ToggleClick(onIcon) ==
  /\ pc = "ready"
  /\ absent # "menuToggle"
  /\ Commit(HandleOutsideClick(ToggleMobileMenu(Cur), FALSE, ~onIcon))
  /\ UNCHANGED <<pc, innerWidth, resizeTimeout, isScrolling, rafPending>>

\* a click anywhere else: only the document's click listener runs
OtherClick(inMenu) ==
  /\ pc = "ready"
  /\ Commit(HandleOutsideClick(Cur, inMenu, FALSE))
  /\ UNCHANGED <<pc, innerWidth, resizeTimeout, isScrolling, rafPending>>

\* the URL fragment changes to h (typed, or back/forward) and hashchange fires
HashChange(h) ==
  /\ pc = "ready"
  /\ h # hash
  /\ LET r == OnHash([Cur EXCEPT !.hash = h], h)
     IN  /\ Bounded(r)
         /\ Commit(r)
  /\ UNCHANGED <<pc, innerWidth, resizeTimeout, isScrolling, rafPending>>

\* a keydown event on the document
KeyDown(key, altKey) ==
  /\ pc = "ready"
  /\ LET r == HandleKeyNavigation(Cur, key, altKey)
     IN  /\ Bounded(r)
         /\ Commit(r)
  /\ UNCHANGED <<pc, innerWidth, resizeTimeout, isScrolling, rafPending>>

\* a scroll event the throttle lets through: handleScroll
Scroll ==
  /\ pc = "ready"
  /\ IF isScrolling
       THEN UNCHANGED <<isScrolling, rafPending>>
       ELSE isScrolling' = TRUE /\ rafPending' = TRUE
  /\ UNCHANGED <<pc, hash, active, navActive, currentSection, isMenuOpen, menuActive,
                 bodyOverflow, innerWidth, resizeTimeout, hasAnimated, animCount,
                 pendingAnim>>
  /\ shown' = ""
  /\ threw' = FALSE

\* the requestAnimationFrame callback of handleScroll; hit is what the layout
\* and window.scrollY are when it runs
ScrollFrame(hit) ==
  /\ rafPending
  /\ rafPending' = FALSE
  /\ LET s1 == ToggleScrollToTopButton(Cur)
     IN  IF s1.threw
           THEN Commit(s1) /\ UNCHANGED isScrolling
           ELSE Commit(UpdateNavigationOnScroll(s1, hit)) /\ isScrolling' = FALSE
  /\ UNCHANGED <<pc, innerWidth, resizeTimeout>>

\* a resize event: the debounced listener restarts its timer
Resize(w) ==
  /\ pc = "ready"
  /\ w # innerWidth
  /\ innerWidth' = w
  /\ resizeTimeout' = TRUE
  /\ UNCHANGED <<pc, hash, active, navActive, currentSection, isMenuOpen, menuActive,
                 bodyOverflow, isScrolling, rafPending, hasAnimated, animCount,
                 pendingAnim>>
  /\ shown' = ""
  /\ threw' = FALSE

\* the debounce timer fires: handleResize
ResizeTimeout ==
  /\ resizeTimeout
  /\ resizeTimeout' = FALSE
  /\ Commit(HandleResize(Cur, innerWidth))
  /\ UNCHANGED <<pc, innerWidth, isScrolling, rafPending>>

\* the IntersectionObserver reports element e as intersecting
Intersect(e) ==
  /\ pc = "ready"
  /\ Commit(ObserverCallback(Cur, e))
  /\ UNCHANGED <<pc, innerWidth, resizeTimeout, isScrolling, rafPending>>

\* a timer of animateSection fires
AnimTimeout(e) ==
  /\ pendingAnim[e] > 0
  /\ Commit(AnimateElement([Cur EXCEPT !.pendingAnim[e] = @ - 1], e))
  /\ UNCHANGED <<pc, innerWidth, resizeTimeout, isScrolling, rafPending>>

\* the event log: the handlers that navigate or close the menu are logged by
\* name, with the menu state they found; every other event as "other".  No
\* listener of the controller touches the engine, the page's named elements
\* or the user's preference
Log(ev) ==
  /\ lastEv' = [ev |-> ev, fragment |-> IF ev = "load" THEN hash ELSE "",
                menuWasOpen |-> IF ev = "other" THEN FALSE ELSE isMenuOpen]
  /\ UNCHANGED <<envVars, utilVars, engVars>>

\* every event, with the event log
Next ==
  \/ DOMContentLoaded /\ Log("load")
  \/ \E i \in NavLinks : NavClick(i) /\ Log("navclick")
  \/ \E onIcon \in BOOLEAN : ToggleClick(onIcon) /\ Log("other")
  \/ \E inMenu \in BOOLEAN :
       OtherClick(inMenu) /\ Log(IF inMenu THEN "other" ELSE "outsideclick")
  \/ \E h \in Hashes : HashChange(h) /\ Log("hashchange")
  \/ \E k \in Keys, a \in BOOLEAN :
       KeyDown(k, a) /\ Log(IF k = "Escape" THEN "escape" ELSE IF a THEN "altarrow" ELSE "other")
  \/ Scroll /\ Log("other")
  \/ \E hit \in 0..Len(Sections) : ScrollFrame(hit) /\ Log("other")
  \/ \E w \in Widths : Resize(w) /\ Log("other")
  \/ ResizeTimeout /\ Log("handleResize")
  \/ \E e \in Elems : Intersect(e) /\ Log("other")
  \/ \E e \in Elems : AnimTimeout(e) /\ Log("other")

Spec == Init /\ [][Next]_vars

\* the page lacks one of the named elements
InitMissing ==
  /\ NavInit
  /\ EngInit
  /\ UtilInit
  /\ absent \in NamedElements
  /\ reducedMotion = FALSE

SpecMissing == InitMissing /\ [][Next]_vars

\* ------------------------------------------------- the animation engine
\* the start-up timer of the engine's DOMContentLoaded listener:
\* window.CVAnimations = new CVAnimations().  Under reduced motion init()
\* calls setupEssentialAnimations, which the class does not define: the
\* constructor raises a TypeError and the assignment is not reached.
\* Otherwise setupParticleSystem appends the canvas, creates the particles,
\* runs animateParticles once and registers its listeners, setupTextAnimations
\* starts its timers and setupCursorEffects adds the overlay on wide windows
EngineStart ==
  /\ pc = "ready"
  /\ eng = "none"
  /\ IF reducedMotion
       THEN /\ eng' = "failed"
            /\ UNCHANGED <<canvasAttached, cursorOverlay, bodyCursor, listening,
                           tickPending, decoPending, particles, evals, tickNo>>
       ELSE /\ eng' = "installed"
            /\ canvasAttached' = TRUE
            /\ \E ps \in [1..ParticleCount -> NewParticles] :
                 LET r == AnimateParticles(ps, mouse)
                 IN  particles' = r.particles /\ evals' = r.evals
            /\ tickNo' = 1
            /\ tickPending' = RequestFrame(tickPending)
            /\ listening' = TRUE
            /\ decoPending' = TRUE
            /\ cursorOverlay' = (innerWidth > Breakpoint)
            /\ bodyCursor' = IF innerWidth > Breakpoint THEN "none" ELSE bodyCursor
  /\ UNCHANGED <<navVars, envVars, utilVars, destroyed, destroyThrew, mouse>>

\* a requestAnimationFrame callback of the particle system: animateParticles,
\* which requests the next frame; tickNo counts the frames up to MaxTicks
AnimationFrame ==
  /\ pc = "ready"
  /\ tickPending > 0
  /\ LET r == AnimateParticles(particles, mouse)
     IN  particles' = r.particles /\ evals' = r.evals
  /\ tickNo' = Min(tickNo + 1, MaxTicks)
  /\ tickPending' = RequestFrame(tickPending - 1)
  /\ UNCHANGED <<navVars, envVars, utilVars, eng, canvasAttached, cursorOverlay, bodyCursor,
                 listening, decoPending, destroyed, destroyThrew, mouse>>

\* the first MaxTicks frames
Tick ==
  /\ tickNo < MaxTicks
  /\ AnimationFrame

\* a mousemove event: the listener of the particle system records the pointer
MouseMove(m) ==
  /\ pc = "ready"
  /\ listening
  /\ m # mouse
  /\ mouse' = m
  /\ UNCHANGED <<navVars, envVars, utilVars, eng, canvasAttached, cursorOverlay, bodyCursor,
                 listening, tickPending, decoPending, destroyed, destroyThrew,
                 particles, evals, tickNo>>

\* the last one-shot timer of the text animations has fired
DecoTimeout ==
  /\ pc = "ready"
  /\ decoPending
  /\ decoPending' = FALSE
  /\ UNCHANGED <<navVars, envVars, utilVars, eng, canvasAttached, cursorOverlay, bodyCursor,
                 listening, tickPending, destroyed, destroyThrew, particles, mouse,
                 evals, tickNo>>

\* a call of window.CVAnimations.destroy()
DestroyCall ==
  /\ pc = "ready"
  /\ eng = "installed"
  /\ CommitEngine(Destroy(CurEngine))
  /\ UNCHANGED <<navVars, envVars, utilVars, eng, listening, tickPending, decoPending,
                 particles, mouse, evals, tickNo>>

\* the beforeunload listener: destroy() if window.CVAnimations is set
Unload ==
  /\ pc = "ready"
  /\ pc' = "unloaded"
  /\ IF eng = "installed"
       THEN CommitEngine(Destroy(CurEngine))
       ELSE UNCHANGED <<canvasAttached, cursorOverlay, bodyCursor, destroyed,
                        destroyThrew>>
  /\ UNCHANGED <<hash, active, navActive, currentSection, isMenuOpen, menuActive,
                 bodyOverflow, innerWidth, resizeTimeout, isScrolling, rafPending,
                 hasAnimated, animCount, pendingAnim, shown, lastEv, threw>>
  /\ UNCHANGED <<envVars, utilVars, eng, listening, tickPending, decoPending, particles,
                 mouse, evals, tickNo>>

\* the page with either preference
InitEngine ==
  /\ NavInit
  /\ EngInit
  /\ UtilInit
  /\ absent = "none"
  /\ reducedMotion \in BOOLEAN

\* the page loads, the engine starts and runs among scroll, resize and
\* nav-click events, the page is left
NextEngine ==
  \/ DOMContentLoaded /\ Log("load")
  \/ \E i \in NavLinks : NavClick(i) /\ Log("navclick")
  \/ Scroll /\ Log("other")
  \/ \E hit \in 0..Len(Sections) : ScrollFrame(hit) /\ Log("other")
  \/ \E w \in Widths : Resize(w) /\ Log("other")
  \/ ResizeTimeout /\ Log("handleResize")
  \/ EngineStart
  \/ Tick
  \/ \E m \in MousePoints : MouseMove(m)
  \/ DecoTimeout
  \/ DestroyCall
  \/ Unload

SpecEngine == InitEngine /\ [][NextEngine]_vars

\* the parsed page of Init with the first section and its link marked
Page0 ==
  [hash |-> "", active |-> {Sections[1]}, navActive |-> {1},
   currentSection |-> "perfil", isMenuOpen |-> FALSE, menuActive |-> FALSE,
   bodyOverflow |-> "", hasAnimated |-> {}, animCount |-> [e \in Elems |-> 0],
   pendingAnim |-> [e \in Elems |-> 0], shown |-> "", threw |-> FALSE]

\* the controller's state after DOMContentLoaded on that page
AfterLoad ==
  LET app == InitializeComponents(Page0)
  IN  OnHash(app, app.hash)

\* states a particle can be in before a tick: at rest; moving at 1 px per
\* tick; about to leave the canvas on the left at the maximum speed; moving
\* at almost the maximum speed near the second pointer position
TickParticles ==
  {[x |-> 10000, y |-> 10000, vx |-> 0, vy |-> 0],
   [x |-> 50000, y |-> 10000, vx |-> 1000, vy |-> 0],
   [x |-> 500, y |-> 200000, vx |-> -2000, vy |-> 0],
   [x |-> 300000, y |-> 200000, vx |-> 1999, vy |-> 63]}

\* the engine running on the loaded page, before any of its frames
InitTick ==
  /\ absent = "none"
  /\ reducedMotion = FALSE
  /\ pc = "ready"
  /\ hash = AfterLoad.hash
  /\ active = AfterLoad.active
  /\ navActive = AfterLoad.navActive
  /\ currentSection = AfterLoad.currentSection
  /\ isMenuOpen = AfterLoad.isMenuOpen
  /\ menuActive = AfterLoad.menuActive
  /\ bodyOverflow = AfterLoad.bodyOverflow
  /\ innerWidth \in Widths
  /\ resizeTimeout = FALSE
  /\ isScrolling = FALSE
  /\ rafPending = FALSE
  /\ hasAnimated = AfterLoad.hasAnimated
  /\ animCount = AfterLoad.animCount
  /\ pendingAnim = AfterLoad.pendingAnim
  /\ shown = AfterLoad.shown
  /\ lastEv = [ev |-> "load", fragment |-> "perfil", menuWasOpen |-> FALSE]
  /\ threw = FALSE
  /\ eng = "installed"
  /\ canvasAttached = TRUE
  /\ cursorOverlay = (innerWidth > Breakpoint)
  /\ bodyCursor = IF innerWidth > Breakpoint THEN "none" ELSE ""
  /\ listening = TRUE
  /\ tickPending = 1
  /\ decoPending = FALSE
  /\ destroyed = FALSE
  /\ destroyThrew = FALSE
  /\ particles \in [1..NParticles -> TickParticles]
  /\ mouse \in MousePoints
  /\ evals = <<>>
  /\ tickNo = 0
  /\ UtilInit

\* the frames of the particle system from such a state
NextTick == Tick

SpecTick == InitTick /\ [][NextTick]_vars

\* states a particle can be in when the window has been narrowed from 1200
\* to 600 px: on the new canvas at rest, or on the part of the old canvas
\* that the new one lacks, moving right, moving left or at rest
ShrunkParticles ==
  {[x |-> 300000, y |-> 200000, vx |-> 0, vy |-> 0],
   [x |-> 300000, y |-> 300000, vx |-> 0, vy |-> 0],
   [x |-> 1000000, y |-> 200000, vx |-> 250, vy |-> 0],
   [x |-> 1000000, y |-> 300000, vx |-> -250, vy |-> 0],
   [x |-> 900000, y |-> 200000, vx |-> 0, vy |-> 0],
   [x |-> 800000, y |-> 100000, vx |-> -100, vy |-> 0]}

\* the engine running on the loaded page after the window has been narrowed
\* to 600 px, the pointer never moved
InitResize ==
  /\ absent = "none"
  /\ reducedMotion = FALSE
  /\ pc = "ready"
  /\ hash = AfterLoad.hash
  /\ active = AfterLoad.active
  /\ navActive = AfterLoad.navActive
  /\ currentSection = AfterLoad.currentSection
  /\ isMenuOpen = AfterLoad.isMenuOpen
  /\ menuActive = AfterLoad.menuActive
  /\ bodyOverflow = AfterLoad.bodyOverflow
  /\ innerWidth = 600
  /\ resizeTimeout = FALSE
  /\ isScrolling = FALSE
  /\ rafPending = FALSE
  /\ hasAnimated = {}
  /\ animCount = AfterLoad.animCount
  /\ pendingAnim = AfterLoad.pendingAnim
  /\ shown = ""
  /\ lastEv = [ev |-> "handleResize", fragment |-> "", menuWasOpen |-> FALSE]
  /\ threw = FALSE
  /\ eng = "installed"
  /\ canvasAttached = TRUE
  /\ cursorOverlay = TRUE
  /\ bodyCursor = "none"
  /\ listening = TRUE
  /\ tickPending = 1
  /\ decoPending = FALSE
  /\ destroyed = FALSE
  /\ destroyThrew = FALSE
  /\ particles \in [1..NParticles -> ShrunkParticles]
  /\ mouse = [x |-> 0, y |-> 0]
  /\ evals = <<>>
  /\ tickNo = 0
  /\ UtilInit

\* the frames keep running and no further resize occurs
NextResize == AnimationFrame

\* the browser runs every requested animation frame
SpecResize == InitResize /\ [][NextResize]_vars /\ WF_vars(AnimationFrame)

\* ------------------------------------------------- throttle and debounce
\* the arguments a debounced function is called with
Args == {1, 2}

\* a call of the throttled function that leaves inThrottle unset
ThrottleCallNoFlag(th, t) ==
  IF ~th.inThrottle
    THEN [th EXCEPT !.timers = @ \cup {t + Limit}, !.lastExec = t, !.ran = TRUE]
    ELSE [th EXCEPT !.ran = FALSE]

\* a call at time t of the function throttle(func, limit) returns: func runs
\* and a timer of limit ms is set unless inThrottle is set
ThrottleCall(th, t) ==
  IF ~th.inThrottle
    THEN [th EXCEPT !.inThrottle = TRUE, !.timers = @ \cup {t + Limit},
                    !.lastExec = t, !.ran = TRUE]
    ELSE [th EXCEPT !.ran = FALSE]

\* the timer callback of throttle: () => inThrottle = false
ThrottleReset(th, due) == [th EXCEPT !.inThrottle = FALSE, !.timers = @ \ {due}]

\* clearTimeout(id): a pending timer with that id is cancelled
ClearTimeout(timers, id) == {tm \in timers : tm.id # id}

\* the id setTimeout returns: one no pending timer has and timeout does not hold
NewTimerId(d) ==
  CHOOSE id \in 1..(MaxTimers + 2) : id # d.timeout /\ \A tm \in d.timers : tm.id # id

\* a call of the debounced function that does not cancel the pending timer
DebounceCallNoClear(d, t, a) ==
  [d EXCEPT !.timers = @ \cup {[id |-> NewTimerId(d), due |-> t + Wait, args |-> a]},
            !.timeout = NewTimerId(d),
            !.lastCall = [at |-> t, args |-> a],
            !.runs = 0,
            !.calls = IF d.runs > 0 THEN 1 ELSE Min(@ + 1, 2),
            !.missed = @ \/ (d.lastCall.at # -1 /\ d.runs = 0 /\ t - d.lastCall.at >= Wait)]

\* a call at time t, with argument a, of the function debounce(func, wait)
\* returns: clearTimeout(timeout); timeout = setTimeout(later, wait).  Logged
\* are the call, the number of calls since the last run of func, and whether
\* the calls before this one ended wait ms ago without a run of func
DebounceCall(d, t, a) ==
  [d EXCEPT !.timers = ClearTimeout(@, d.timeout)
                         \cup {[id |-> NewTimerId(d), due |-> t + Wait, args |-> a]},
            !.timeout = NewTimerId(d),
            !.lastCall = [at |-> t, args |-> a],
            !.runs = 0,
            !.calls = IF d.runs > 0 THEN 1 ELSE Min(@ + 1, 2),
            !.missed = @ \/ (d.lastCall.at # -1 /\ d.runs = 0 /\ t - d.lastCall.at >= Wait)]

\* the timer callback later of the call that set timer tm, run at time t:
\* clearTimeout(timeout); func(...args)
Later(d, tm, t) ==
  [d EXCEPT !.timers = ClearTimeout(@ \ {tm}, d.timeout),
            !.runs = Min(@ + 1, 2),
            !.ranAt = t,
            !.ranArgs = tm.args]

\* the throttled function is called
ThrottledCall ==
  /\ thr' = ThrottleCall(thr, now)
  /\ UNCHANGED <<navVars, envVars, engVars, now, deb>>

\* a timer of the throttled function fires, at its due time or later
ThrottleTimeout ==
  /\ \E due \in thr.timers :
       /\ due <= now
       /\ thr' = ThrottleReset(thr, due)
  /\ UNCHANGED <<navVars, envVars, engVars, now, deb>>

\* the debounced function is called with argument a
DebouncedCall(a) ==
  /\ Cardinality(deb.timers) < MaxTimers
  /\ deb' = DebounceCall(deb, now, a)
  /\ UNCHANGED <<navVars, envVars, engVars, now, thr>>

\* a timer of the debounced function fires, at its due time or later
DebounceTimeout ==
  /\ \E tm \in deb.timers :
       /\ tm.due <= now
       /\ deb' = Later(deb, tm, now)
  /\ UNCHANGED <<navVars, envVars, engVars, now, thr>>

\* time passes
Advance ==
  /\ now < MaxTime
  /\ now' = now + 1
  /\ UNCHANGED <<navVars, envVars, engVars, thr, deb>>

\* the loaded page, its listeners registered, no event dispatched yet
InitTimers ==
  /\ absent = "none"
  /\ reducedMotion = FALSE
  /\ pc = "ready"
  /\ hash = AfterLoad.hash
  /\ active = AfterLoad.active
  /\ navActive = AfterLoad.navActive
  /\ currentSection = AfterLoad.currentSection
  /\ isMenuOpen = AfterLoad.isMenuOpen
  /\ menuActive = AfterLoad.menuActive
  /\ bodyOverflow = AfterLoad.bodyOverflow
  /\ innerWidth = 1200
  /\ resizeTimeout = FALSE
  /\ isScrolling = FALSE
  /\ rafPending = FALSE
  /\ hasAnimated = AfterLoad.hasAnimated
  /\ animCount = AfterLoad.animCount
  /\ pendingAnim = AfterLoad.pendingAnim
  /\ shown = AfterLoad.shown
  /\ lastEv = [ev |-> "load", fragment |-> "perfil", menuWasOpen |-> FALSE]
  /\ threw = FALSE
  /\ EngInit
  /\ UtilInit

\* calls of the two functions at any time, their timers firing when due or
\* later
NextTimers ==
  \/ ThrottledCall
  \/ ThrottleTimeout
  \/ \E a \in Args : DebouncedCall(a)
  \/ DebounceTimeout
  \/ Advance

SpecTimers == InitTimers /\ [][NextTimers]_vars

TypeOK ==
  /\ pc \in {"loading", "ready", "unloaded"}
  /\ hash \in Hashes
  /\ active \subseteq ElementIds
  /\ navActive \subseteq NavLinks
  /\ currentSection \in ElementIds
  /\ isMenuOpen \in BOOLEAN
  /\ menuActive \in BOOLEAN
  /\ innerWidth \in Widths
  /\ hasAnimated \subseteq Elems
  /\ \A e \in Elems : animCount[e] \in 0..MaxAnimCount /\ pendingAnim[e] \in 0..MaxPending
  /\ threw \in BOOLEAN
  /\ absent \in NamedElements \cup {"none"}
  /\ reducedMotion \in BOOLEAN
  /\ eng \in {"none", "installed", "failed"}
  /\ bodyCursor \in {"", "none"}
  /\ Len(particles) \in {0, ParticleCount}
  /\ mouse \in MousePoints
  /\ tickNo \in 0..MaxTicks
  /\ tickPending \in 0..1
  /\ now \in 0..MaxTime
  /\ thr.inThrottle \in BOOLEAN
  /\ thr.lastExec \in -1..MaxTime
  /\ deb.timeout \in 0..(MaxTimers + 2)
  /\ deb.runs \in 0..2
  /\ deb.calls \in 0..2

\* the handlers that can start a section transition
NavEvents == {"navclick", "hashchange", "altarrow"}

\* ---------------------------------------------------------------- claims

\* C1: once showSection(S) has completed for the identifier S of a section,
\* from whatever state it was called in, exactly one section carries the
\* active marker and that section is S.
C1_ShowSectionExactlyOne ==
  shown \in SectionSet => ActiveSections = {shown}

C1_Witness ==
  /\ shown = "educacion"
  /\ ActiveSections = {"educacion"}
  /\ currentSection = "educacion"

\* C2: in every state after initialization exactly one section carries the
\* active marker.
C2_ExactlyOneActive ==
  pc = "ready" => Cardinality(ActiveSections) = 1

\* C3: a hash change to an identifier that names no section leaves the active
\* section, state.currentSection and the highlighted nav link as they were
\* (the fragment is the one the browser has just set).
C3_UnknownTargetNoOp ==
  [][(lastEv'.ev = "hashchange" /\ hash' \notin SectionSet)
       => /\ ActiveSections' = ActiveSections
          /\ currentSection' = currentSection
          /\ navActive' = navActive]_vars

\* C4: in every state after initialization exactly one nav link is
\* highlighted and it is the link of the section carrying the active marker.
C4_LinkMatchesSection ==
  pc = "ready" =>
    \E i \in NavLinks : navActive = {i} /\ ActiveSections = {Sections[i]}

\* C5: after every section transition started by a nav-link click, a hash
\* change or Alt+arrow, the URL fragment is the identifier of the section
\* carrying the active marker, and the page has not gone back to loading.
C5_UrlMatchesActive ==
  (lastEv.ev \in NavEvents /\ shown \in SectionSet)
    => /\ hash = shown
       /\ hash \in ActiveSections
       /\ pc = "ready"

C5_Witness ==
  /\ lastEv.ev = "altarrow"
  /\ shown = "experiencia"
  /\ hash = "experiencia"
  /\ "experiencia" \in ActiveSections

\* C6: animateElement is invoked at most once for any element.
C6_AnimatedAtMostOnce ==
  \A e \in Elems : animCount[e] <= 1

\* C7: after loading with the fragment of a configured section S, S is the
\* only active section and the nav link bound to S is the highlighted one.
C7_LoadWithFragment ==
  (lastEv.ev = "load" /\ lastEv.fragment \in SectionSet)
    => /\ ActiveSections = {lastEv.fragment}
       /\ navActive = {LinkOf(lastEv.fragment)}

\* C8: after loading with a fragment that is empty or is not the identifier
\* of a section, the default section 'perfil' is the active section.
C8_LoadFallsBackToDefault ==
  (lastEv.ev = "load" /\ lastEv.fragment \notin SectionSet)
    => ActiveSections = {"perfil"}

C8_Witness ==
  /\ lastEv.ev = "load"
  /\ lastEv.fragment = "navigation"
  /\ ActiveSections = {"perfil"}
  /\ currentSection = "perfil"

\* C9: when the menu is open and a click outside the menu and its toggle, the
\* Escape key, or a debounced resize to a width above the breakpoint is
\* handled, the menu is closed afterwards (flag false, menu not active).
C9_MenuAutoClose ==
  (/\ lastEv.menuWasOpen
   /\ \/ lastEv.ev \in {"outsideclick", "escape"}
      \/ lastEv.ev = "handleResize" /\ innerWidth > Breakpoint)
    => ~isMenuOpen /\ ~menuActive

C9_Witness ==
  /\ lastEv.ev = "handleResize"
  /\ lastEv.menuWasOpen
  /\ innerWidth = 1200
  /\ ~isMenuOpen
  /\ ~menuActive

\* C10 as claimed: after every section transition that happens while the
\* menu is open, by nav-link click, hash change or Alt+arrow, the menu is
\* closed.
C10_ClosedOnEveryNavigation ==
  (lastEv.menuWasOpen /\ lastEv.ev \in NavEvents /\ shown \in SectionSet)
    => ~isMenuOpen

\* C10 as amended: a section transition started by a nav-link click while the
\* menu is open closes the menu; one started by a hash change or by Alt+arrow
\* leaves it open.
C10_ClosedOnNavClick ==
  /\ (lastEv.menuWasOpen /\ lastEv.ev = "navclick" /\ shown \in SectionSet)
       => ~isMenuOpen /\ ~menuActive
  /\ (lastEv.menuWasOpen /\ lastEv.ev \in {"hashchange", "altarrow"})
       => isMenuOpen /\ menuActive

C10_Witness ==
  /\ lastEv.ev = "navclick"
  /\ lastEv.menuWasOpen
  /\ shown = "experiencia"
  /\ ~isMenuOpen

\* C11 as claimed: when the resize handler has run after a resize from 1200px
\* to 600px with the menu open, the menu is closed.
C11_ClosedAfterNarrowing ==
  (lastEv.ev = "handleResize" /\ lastEv.menuWasOpen /\ innerWidth = 600)
    => ~isMenuOpen

\* C11 as amended: the resize handler leaves an open menu open when the new
\* width is 600px (not above the breakpoint) and closes it when the new
\* width is 1200px.
C11_ResizeClosesOnlyAboveBreakpoint ==
  (lastEv.ev = "handleResize" /\ lastEv.menuWasOpen)
    => /\ innerWidth = 600 => isMenuOpen /\ menuActive /\ bodyOverflow = "hidden"
       /\ innerWidth = 1200 => ~isMenuOpen /\ ~menuActive /\ bodyOverflow = ""

C11_Witness ==
  /\ lastEv.ev = "handleResize"
  /\ lastEv.menuWasOpen
  /\ innerWidth = 600
  /\ isMenuOpen
  /\ menuActive

\* C12: with Alt held and the section at index i the one carrying the active
\* marker, ArrowRight activates section i+1 and highlights its link unless i
\* is the last index, ArrowLeft activates section i-1 and highlights its
\* link unless i is the first, and at either end nothing changes.
C12_AltArrowFromActive ==
  [][\A i \in 1..Len(Sections) :
       (lastEv'.ev = "altarrow" /\ ActiveSections = {Sections[i]}) =>
         /\ KeyDown("ArrowRight", TRUE) =>
              IF i < Len(Sections)
                THEN ActiveSections' = {Sections[i + 1]} /\ navActive' = {i + 1}
                ELSE UNCHANGED <<active, navActive, currentSection, hash>>
         /\ KeyDown("ArrowLeft", TRUE) =>
              IF i > 1
                THEN ActiveSections' = {Sections[i - 1]} /\ navActive' = {i - 1}
                ELSE UNCHANGED <<active, navActive, currentSection, hash>>]_vars

\* C13: the scroll frame changes only which nav link is highlighted: the
\* active markers, state.currentSection, the URL fragment and the pending
\* animateSection timers are as before.
C13_ScrollOnlyRehighlights ==
  [][(rafPending /\ ~rafPending')
       => /\ active' = active
          /\ currentSection' = currentSection
          /\ hash' = hash
          /\ pendingAnim' = pendingAnim]_vars

\* the pending one-shot timers of animateSection
RevealTimers == {e \in Elems : pendingAnim[e] > 0}

\* C14: with the reduced-motion preference active at start-up no particle
\* is ever created, no tick is scheduled, and no one-shot decorative timer
\* (typewriter, fade-in, shine, ripple, staggered reveal) is pending.
C14_NoMotionWhenReduced ==
  reducedMotion =>
    /\ particles = <<>>
    /\ tickPending = 0
    /\ ~decoPending
    /\ RevealTimers = {}

\* C15: with the reduced-motion preference set, once the engine's start-up
\* has run the constructor has returned normally, the instance is installed
\* as window.CVAnimations, and no canvas, cursor overlay or particle listener
\* exists.
C15_ReducedStartupCompletes ==
  (reducedMotion /\ eng # "none") =>
    /\ eng = "installed"
    /\ ~canvasAttached
    /\ ~cursorOverlay
    /\ ~listening

\* p lies on the canvas
InCanvas(p) ==
  /\ 0 <= p.x /\ p.x <= CanvasWidth
  /\ 0 <= p.y /\ p.y <= CanvasHeight

\* the speed of p is at most c
SpeedAtMost(p, c) == p.vx * p.vx + p.vy * p.vy <= c * c

\* C16 as claimed: a particle that is on the canvas before a tick, with a
\* velocity of magnitude at most the speed cap, is on the canvas after it.
C16_StaysOnCanvas ==
  [][tickNo' # tickNo =>
       \A k \in 1..Len(particles) :
         (InCanvas(particles[k]) /\ SpeedAtMost(particles[k], MaxSpeed))
           => InCanvas(particles'[k])]_vars

\* C16 as amended: such a particle is, after the tick, at most the speed
\* cap (2 px) outside the canvas in each direction; its position is not
\* corrected, only its velocity is reversed.
C16_StaysNearCanvas ==
  [][tickNo' # tickNo =>
       \A k \in 1..Len(particles) :
         (InCanvas(particles[k]) /\ SpeedAtMost(particles[k], MaxSpeed))
           => /\ -MaxSpeed <= particles'[k].x
              /\ particles'[k].x <= CanvasWidth + MaxSpeed
              /\ -MaxSpeed <= particles'[k].y
              /\ particles'[k].y <= CanvasHeight + MaxSpeed]_vars

C16_Witness ==
  /\ tickNo = 1
  /\ \E k \in 1..Len(particles) : particles[k].x < 0 /\ particles[k].vx > 0

RoundingSlack == 2

PairsOnce(ev, n) ==
  /\ Len(ev) = (n * (n - 1)) \div 2
  /\ \A i \in 1..n : \A j \in (i + 1)..n :
       Cardinality({m \in 1..Len(ev) : ev[m].i = i /\ ev[m].j = j}) = 1

\* the evaluation e draws a line iff its distance is below 80 px, with
\* opacity (80 - d) / 80 * 0.2 rounded to 1/10000 (0.1 at 40 px)
LineRule(e) ==
  /\ e.line <=> e.d < 80 * (Scale \div 10)
  /\ e.line =>
       2 * Abs(e.opacity * 80 * (Scale \div 10) - (80 * (Scale \div 10) - e.d) * 2000)
         <= 80 * (Scale \div 10)
  /\ e.d = 40 * (Scale \div 10) => e.opacity = 1000

\* C18 as claimed: in a tick every pair i < j is evaluated exactly once, a
\* line is drawn iff d < 80 with opacity (80 - d) / 80 * 0.2, and d is the
\* distance between the positions both particles have after the tick's
\* position update.
C18_PairsAfterUpdate ==
  [][tickNo' # tickNo =>
       /\ PairsOnce(evals', Len(particles))
       /\ \A m \in 1..Len(evals') :
            /\ LineRule(evals'[m])
            /\ evals'[m].d =
                 Hypot(particles'[evals'[m].i].x - particles'[evals'[m].j].x,
                       particles'[evals'[m].i].y - particles'[evals'[m].j].y)]_vars

\* C18 as amended: d is the distance between the position of particle i
\* after its update in this tick and the position of particle j before its
\* update; the rest as claimed.
C18_PairsDuringUpdate ==
  [][tickNo' # tickNo =>
       /\ PairsOnce(evals', Len(particles))
       /\ \A m \in 1..Len(evals') :
            /\ LineRule(evals'[m])
            /\ evals'[m].d =
                 Hypot(particles'[evals'[m].i].x - particles[evals'[m].j].x,
                       particles'[evals'[m].i].y - particles[evals'[m].j].y)]_vars

C18_Witness ==
  /\ tickNo = 1
  /\ \E m \in 1..Len(evals) :
       /\ evals[m].d = 4000
       /\ evals[m].line
       /\ evals[m].opacity = 1000
       /\ particles[evals[m].j].vx # 0

\* C19: after destroy() the canvas and the cursor overlay are detached and
\* the body's cursor style is the default; after unload destroy() has been
\* called whenever an engine instance was installed.
C19_DestroyDetaches ==
  /\ destroyed => ~canvasAttached /\ ~cursorOverlay /\ bodyCursor = ""
  /\ (pc = "unloaded" /\ eng = "installed") => destroyed

C19_Witness ==
  /\ pc = "unloaded"
  /\ eng = "installed"
  /\ destroyed
  /\ innerWidth > Breakpoint
  /\ ~canvasAttached
  /\ bodyCursor = ""

\* C20: when one of the named elements is absent, no listener of any event
\* (nav click, scroll, resize, key press, outside click) raises an error.
C20_HandlersComplete == (absent \in NamedElements) => ~threw

\* C23: one click on the menu toggle, on the button or on its icon, with
\* the menu closed leaves the menu open when the toggle's listener and the
\* document's click listener have run; one click with the menu open leaves
\* it closed.
C23_ToggleClickToggles ==
  [][\A onIcon \in BOOLEAN :
       ToggleClick(onIcon) =>
         /\ ~isMenuOpen => isMenuOpen' /\ menuActive'
         /\ isMenuOpen => ~isMenuOpen' /\ ~menuActive']_vars

\* C27: after initialization state.currentSection is the identifier of the
\* section that carries the active marker.
C27_CurrentSectionIsActive ==
  pc = "ready" => ActiveSections = {currentSection}

\* C28: state.isScrolling is set exactly while the animation frame callback
\* of handleScroll is pending, so the callback that resets it is still to
\* come whenever it is set.
C28_FlagOnlyWhilePending == isScrolling <=> rafPending

\* C30: state.isMenuOpen holds iff the nav menu carries the active class,
\* and the body's scrolling is locked exactly then.
C30_FlagMatchesMenu ==
  /\ isMenuOpen <=> menuActive
  /\ isMenuOpen <=> bodyOverflow = "hidden"
  /\ ~isMenuOpen <=> bodyOverflow = ""

C30_Witness ==
  /\ lastEv.ev = "escape"
  /\ lastEv.menuWasOpen
  /\ resizeTimeout
  /\ innerWidth = 600
  /\ ~isMenuOpen
  /\ ~menuActive
  /\ bodyOverflow = ""

\* C24: every tick requests the next one while destroy() has not been
\* called, and a tick that runs after destroy() has been called requests no
\* further one.
C24_LoopStopsAfterDestroy ==
  [][tickNo' # tickNo =>
       IF destroyed THEN tickPending' = 0 ELSE tickPending' > 0]_vars

\* C25: at most one tick of the particle system is requested and not yet
\* run.
C25_OneTickPending == tickPending <= 1

C25_Witness ==
  /\ tickNo = MaxTicks
  /\ tickPending = 1
  /\ mouse # [x |-> 0, y |-> 0]
  /\ resizeTimeout
  /\ isScrolling
  /\ lastEv.ev = "navclick"

\* C29: a call of destroy() after the first one completes without raising
\* an error and leaves the canvas, the overlay and the cursor style as the
\* first call left them.
C29_DestroyIdempotent ==
  [][(destroyed /\ destroyed') =>
       /\ ~destroyThrew'
       /\ UNCHANGED <<canvasAttached, cursorOverlay, bodyCursor>>]_vars

\* C21: the first call of a throttled function runs func at once, and a call
\* that arrives less than limit after a call that ran func does not run it.
C21_ThrottleLimits ==
  [][ThrottledCall =>
       IF thr.lastExec = -1
         THEN thr'.ran /\ thr'.lastExec = now
         ELSE now - thr.lastExec < Limit => ~thr'.ran /\ thr'.lastExec = thr.lastExec]_vars

\* func ran a second time, limit or more after the first, and the call
\* after that, less than limit later, was dropped
C21_Witness ==
  /\ thr.lastExec >= Limit
  /\ now - thr.lastExec < Limit
  /\ now > thr.lastExec
  /\ ~thr.ran
  /\ thr.inThrottle

\* C22 as stated: for every burst of calls less than wait apart, func runs
\* exactly once: no burst ends without a run of func, none has two.
C22_OncePerBurst == ~deb.missed /\ deb.runs <= 1

\* C22: at most one timer of a debounced function is pending; func runs at
\* most once after the last call, not before wait has passed since that
\* call and with its arguments; until it has run, the timer of the last
\* call is pending.
C22_RunsAfterLastCall ==
  /\ Cardinality(deb.timers) <= 1
  /\ deb.runs <= 1
  /\ deb.runs = 1 =>
       /\ deb.ranAt >= deb.lastCall.at + Wait
       /\ deb.ranArgs = deb.lastCall.args
       /\ deb.timers = {}
  /\ (deb.lastCall.at # -1 /\ deb.runs = 0) =>
       deb.timers = {[id |-> deb.timeout, due |-> deb.lastCall.at + Wait,
                      args |-> deb.lastCall.args]}

\* two calls less than wait apart were answered by one run of func, wait or
\* more after the second and with its arguments
C22_Witness ==
  /\ deb.calls = 2
  /\ deb.runs = 1
  /\ deb.lastCall = [at |-> 1, args |-> 2]
  /\ deb.ranArgs = 2
  /\ deb.ranAt >= deb.lastCall.at + Wait

\* C26: every particle that a narrowing of the window has left outside the
\* new bounds is within the bounds again after finitely many ticks, when
\* the ticks keep running and no further resize occurs.  (That the resize
\* leaves the particle collection as it is holds: resizeCanvas only sets the
\* canvas size.)
C26_ReflectedBack ==
  \A k \in 1..NParticles : <>InCanvas(particles[k])
====
